---- MODULE Spec2Model ----
(***************************************************************************)
(* Model of internal/lsp/cache/cache.go (the Cache of the language server) *)
(* and of the aggregate report of the missing-metadata rule whose tests    *)
(* follow it.  Workers are goroutines sharing one *Cache; every mutex is   *)
(* modelled, and a critical section (map access + deferred Unlock) is one  *)
(* step.                                                                   *)
(***************************************************************************)
EXTENDS Integers, Sequences, FiniteSets, TLC

\* ---------------------------------------------------------------- bounds
\* the number of calls made in one behaviour
MaxOps == 3

Workers == {"w1", "w2"}
URIs == {"file:///p.rego", "file:///q.rego"}
NoURI == ""
NoWorker == ""

\* ---------------------------------------------------------------- values
Contents == {"a", "b"}

\* []types.Diagnostic: a nil slice and an empty non-nil slice both have len 0
NilDiags == [isNil |-> TRUE, elems |-> <<>>]
Slice(s) == [isNil |-> FALSE, elems |-> s]
\* the slices the producing passes store: parse errors, aggregate findings and
\* file-local findings are different diagnostics
ParseSlices == {Slice(<<>>), Slice(<<"parse-error">>)}
AggregateSlices == {NilDiags, Slice(<<"missing-metadata">>)}
FileSlices == {Slice(<<>>), Slice(<<"line-length">>)}
len(d) == Len(d.elems)
\* append(a, b...): a itself when b has no elements
append(a, b) == IF len(b) = 0 THEN a ELSE Slice(a.elems \o b.elems)

\* *ast.Module: identified by the content it was parsed from
NilModule == [isNil |-> TRUE, parsedFrom |-> ""]
Module(c) == [isNil |-> FALSE, parsedFrom |-> c]
Modules == {Module(c) : c \in Contents}

\* map[uint][]types.BuiltinPosition
NilPositions == [isNil |-> TRUE, lines |-> <<>>]
Positions(l) == [isNil |-> FALSE, lines |-> l]
PositionMaps == {Positions(<<>>), Positions(<< <<"count">> >>)}

Void == [void |-> TRUE]

\* ---------------------------------------------------------------- state
\* cache:   the six maps of the Cache struct
\* mu:      the holder of each map's mutex
\* pc:      each goroutine's program point; call: the function it runs and
\*          its arguments; local: that function's local variables; ret: the
\*          value it has returned
\* interf:  history: the kinds of writes by other goroutines to the URI of a
\*          running call since it was called
\* deleted: history: per URI, whether a Delete of it has returned and no set
\*          of it has written since ("clean": nor since that Delete was called)
\* nops:    the number of calls made
\* hist:    history: per map and URI, the last write that took effect: never
\*          written, set to a value, deleted, or cleared
VARIABLES cache, mu, pc, call, local, ret, interf, deleted, nops, hist

\* sources:       per file, the module last analysed for the missing-metadata
\*                category
\* contributions: the AggregateState: per file, its aggregate entry
\* report:        the violations the last aggregate report returned
\* phase:         "collect" while files contribute, "reported" when a report
\*                has been returned and not yet taken; then, when the report is
\*                written back to the cache, "clearing", "writing", "written"
\* pending:       the URIs whose violations are still to be written back
VARIABLES sources, contributions, report, phase, pending

cacheVars == <<cache, mu, pc, call, local, ret, interf, deleted, nops, hist>>
aggVars == <<sources, contributions, report, phase, pending>>
vars == <<cacheVars, aggVars>>

MapNames == {"fileContents", "modules", "diagnosticsFile", "diagnosticsAggregate",
             "diagnosticsParseErrors", "builtinPositionsFile"}

\* the zero value a Go map lookup yields for a missing key
Zero(m) ==
    CASE m = "fileContents" -> ""
      [] m = "modules" -> NilModule
      [] m = "builtinPositionsFile" -> NilPositions
      [] OTHER -> NilDiags

LookupNonEmpty(m, u) ==
    IF u \in DOMAIN cache[m]
    THEN [val |-> cache[m][u],
          ok |-> IF m \in {"diagnosticsFile", "diagnosticsAggregate", "diagnosticsParseErrors"}
                 THEN Len(cache[m][u].elems) > 0
                 ELSE TRUE]
    ELSE [val |-> Zero(m), ok |-> FALSE]

\* val, ok := c.<m>[uri]
Lookup(m, u) ==
    IF u \in DOMAIN cache[m]
    THEN [val |-> cache[m][u], ok |-> TRUE]
    ELSE [val |-> Zero(m), ok |-> FALSE]

MapSetKeepsFirst(f, u, x) ==
    [v \in DOMAIN f \cup {u} |-> IF v \in DOMAIN f THEN f[v] ELSE x]

\* c.<m>[uri] = x
MapSet(f, u, x) == [v \in DOMAIN f \cup {u} |-> IF v = u THEN x ELSE f[v]]

MapDeleteKeeps(f, u) == f

\* delete(c.<m>, uri)
MapDelete(f, u) == [v \in DOMAIN f \ {u} |-> f[v]]

\* make(map[string]...)
EmptyMap == [v \in {} |-> v]

StoreDropsModule(m, u, x) ==
    IF m = "fileContents"
    THEN [cache EXCEPT ![m] = MapSet(@, u, x), !["modules"] = MapDelete(@, u)]
    ELSE [cache EXCEPT ![m] = MapSet(@, u, x)]

ResetDiagnostics(m) ==
    [cache EXCEPT !["diagnosticsFile"] = EmptyMap,
                  !["diagnosticsAggregate"] = EmptyMap]

\* the cache after c.<m> = make(map[string]...): one map is replaced
Reset(m) == [cache EXCEPT ![m] = EmptyMap]

\* the cache after c.<m>[uri] = x: one map changes
Store(m, u, x) == [cache EXCEPT ![m] = MapSet(@, u, x)]

NoLookup == [val |-> "", ok |-> FALSE]
NoDiags == [val |-> NilDiags, ok |-> FALSE]

InitLocal ==
    [parseDiags |-> NoDiags,
     aggDiags |-> NoDiags,
     fileDiags |-> NoDiags,
     allDiags |-> NilDiags,
     currentContent |-> "",
     cachedContent |-> NoLookup,
     err |-> FALSE,
     wrote |-> FALSE,
     i |-> 0,
     before |-> {}]

\* what the history records for one entry of one map
Never == [state |-> "never", val |-> Void]
Deleted == [state |-> "deleted", val |-> Void]
Cleared == [state |-> "cleared", val |-> Void]
WasSet(x) == [state |-> "set", val |-> x]

NoCall == [fn |-> "", uri |-> NoURI, arg |-> Void]

NewCache ==
    [fileContents |-> EmptyMap,
     modules |-> EmptyMap,
     diagnosticsFile |-> EmptyMap,
     diagnosticsAggregate |-> EmptyMap,
     diagnosticsParseErrors |-> EmptyMap,
     builtinPositionsFile |-> EmptyMap]

Init ==
    /\ cache = NewCache
    /\ mu = [m \in MapNames |-> NoWorker]
    /\ pc = [w \in Workers |-> "idle"]
    /\ call = [w \in Workers |-> NoCall]
    /\ local = [w \in Workers |-> InitLocal]
    /\ ret = [w \in Workers |-> Void]
    /\ interf = [w \in Workers |-> {}]
    /\ deleted = [u \in URIs |-> "none"]
    /\ nops = 0
    /\ hist = [m \in MapNames |-> [u \in URIs |-> Never]]
    /\ sources = EmptyMap
    /\ contributions = EmptyMap
    /\ report = {}
    /\ phase = "collect"
    /\ pending = {}

\* ---------------------------------------------------------------- calls
Getters == {"GetFileContents", "GetModule", "GetFileDiagnostics",
            "GetAggregateDiagnostics", "GetParseErrors", "GetBuiltinPositions"}
DiagSetters == {"SetFileDiagnostics", "SetAggregateDiagnostics", "SetParseErrors"}
Clears == {"ClearFileDiagnostics", "ClearAggregateDiagnostics"}
Setters == DiagSetters \cup {"SetFileContents", "SetModule", "SetBuiltinPositions"}

\* the arguments a caller may pass to each function
Args(f) ==
    CASE f = "SetFileContents" -> URIs \X Contents
      [] f = "SetModule" -> URIs \X Modules
      [] f = "SetParseErrors" -> URIs \X ParseSlices
      [] f = "SetAggregateDiagnostics" -> URIs \X AggregateSlices
      [] f = "SetFileDiagnostics" -> URIs \X FileSlices
      [] f = "SetBuiltinPositions" -> URIs \X PositionMaps
      [] f \in Clears -> {<<NoURI, Void>>}
      [] OTHER -> URIs \X {Void}

Functions == Getters \cup Setters \cup Clears \cup
             {"GetAllDiagnosticsForURI", "Delete", "UpdateCacheForURIFromDisk"}

\* the first program point of each function
Entry(f) ==
    CASE f = "UpdateCacheForURIFromDisk" -> "read"
      [] f = "GetAllDiagnosticsForURI" -> "parse_lock"
      [] OTHER -> "lock"

\* the URIs whose entries a write of worker w touches
Touched(w) == IF call[w].uri = NoURI THEN URIs ELSE {call[w].uri}

\* bookkeeping of a write by w: which running calls on the same URI it overlaps
Interfere(w, kind) ==
    [v \in Workers |->
        IF v # w /\ pc[v] \notin {"idle", "done"} /\ call[v].uri \in Touched(w)
        THEN interf[v] \cup {kind}
        ELSE interf[v]]

\* one value per URI for each function: what is stored does not matter to Delete
OneArg(f) == {<<u, CHOOSE x \in {a[2] : a \in Args(f)} : TRUE>> : u \in URIs}

\* a goroutine calls one of the functions F of the cache with arguments of A
CallWith(w, F, A) ==
    /\ pc[w] = "idle"
    /\ nops < MaxOps
    /\ \E f \in F : \E a \in A[f] :
          /\ call' = [call EXCEPT ![w] = [fn |-> f, uri |-> a[1], arg |-> a[2]]]
          /\ pc' = [pc EXCEPT ![w] = Entry(f)]
          /\ local' = [local EXCEPT ![w] =
                          IF f = "Delete"
                          THEN [InitLocal EXCEPT !.i = 1,
                                   !.before = {m \in MapNames : a[1] \in DOMAIN cache[m]}]
                          ELSE InitLocal]
    /\ nops' = nops + 1
    /\ UNCHANGED <<cache, mu, ret, interf, deleted, aggVars, hist>>

CallIn(w, F) == CallWith(w, F, [f \in F |-> Args(f)])

Call(w) == CallIn(w, Functions)

LockReentered(w, m, from, to) ==
    /\ pc[w] = from
    /\ mu[m] = w
    /\ mu' = [mu EXCEPT ![m] = w]
    /\ pc' = [pc EXCEPT ![w] = to]
    /\ UNCHANGED <<cache, call, local, ret, interf, deleted, nops, aggVars, hist>>

\* c.<m>Mu.Lock()
Lock(w, m, from, to) ==
    /\ pc[w] = from
    /\ mu[m] = NoWorker
    /\ mu' = [mu EXCEPT ![m] = w]
    /\ pc' = [pc EXCEPT ![w] = to]
    /\ UNCHANGED <<cache, call, local, ret, interf, deleted, nops, aggVars, hist>>

UnlockDeferred(m) == mu

\* c.<m>Mu.Unlock()
Unlock(m) == [mu EXCEPT ![m] = NoWorker]

\* a function without results has returned: the goroutine is free again
Finish(w) ==
    /\ pc' = [pc EXCEPT ![w] = "idle"]
    /\ call' = [call EXCEPT ![w] = NoCall]
    /\ local' = [local EXCEPT ![w] = InitLocal]

\* the caller has taken the results: the goroutine is free again
Return(w) ==
    /\ pc[w] = "done"
    /\ Finish(w)
    /\ ret' = [ret EXCEPT ![w] = Void]
    /\ interf' = [interf EXCEPT ![w] = {}]
    /\ UNCHANGED <<cache, mu, deleted, nops, aggVars, hist>>

\* a getter: Lock, lookup, deferred Unlock, return val, ok
Getter(w, f, m) ==
    \/ call[w].fn = f /\ Lock(w, m, "lock", "body")
    \/ /\ call[w].fn = f
       /\ pc[w] = "body"
       /\ pc' = [pc EXCEPT ![w] = "done"]
       /\ ret' = [ret EXCEPT ![w] = Lookup(m, call[w].uri)]
       /\ mu' = Unlock(m)
       /\ UNCHANGED <<cache, call, local, interf, deleted, nops, aggVars, hist>>

\* a setter: Lock, c.<m>[uri] = arg, deferred Unlock
Setter(w, f, m) ==
    \/ call[w].fn = f /\ Lock(w, m, "lock", "body")
    \/ /\ call[w].fn = f
       /\ pc[w] = "body"
       /\ Finish(w)
       /\ cache' = Store(m, call[w].uri, call[w].arg)
       /\ mu' = Unlock(m)
       /\ interf' = [Interfere(w, "set") EXCEPT ![w] = {}]
       /\ deleted' = [deleted EXCEPT ![call[w].uri] = "none"]
       /\ hist' = [hist EXCEPT ![m][call[w].uri] = WasSet(call[w].arg)]
       /\ UNCHANGED <<ret, nops, aggVars>>

\* a clear: Lock, c.<m> = make(map), deferred Unlock
Clear(w, f, m) ==
    \/ call[w].fn = f /\ Lock(w, m, "lock", "body")
    \/ /\ call[w].fn = f
       /\ pc[w] = "body"
       /\ Finish(w)
       /\ cache' = Reset(m)
       /\ mu' = Unlock(m)
       /\ interf' = [Interfere(w, "clear") EXCEPT ![w] = {}]
       /\ hist' = [hist EXCEPT ![m] = [u \in URIs |-> Cleared]]
       /\ UNCHANGED <<ret, deleted, nops, aggVars>>

GetFileContents(w) == Getter(w, "GetFileContents", "fileContents")
SetFileContents(w) == Setter(w, "SetFileContents", "fileContents")
GetModule(w) == Getter(w, "GetModule", "modules")
SetModule(w) == Setter(w, "SetModule", "modules")
GetFileDiagnostics(w) == Getter(w, "GetFileDiagnostics", "diagnosticsFile")
SetFileDiagnostics(w) == Setter(w, "SetFileDiagnostics", "diagnosticsFile")
ClearFileDiagnostics(w) == Clear(w, "ClearFileDiagnostics", "diagnosticsFile")
GetAggregateDiagnostics(w) == Getter(w, "GetAggregateDiagnostics", "diagnosticsAggregate")
SetAggregateDiagnostics(w) == Setter(w, "SetAggregateDiagnostics", "diagnosticsAggregate")
ClearAggregateDiagnostics(w) == Clear(w, "ClearAggregateDiagnostics", "diagnosticsAggregate")
GetParseErrors(w) == Getter(w, "GetParseErrors", "diagnosticsParseErrors")
SetParseErrors(w) == Setter(w, "SetParseErrors", "diagnosticsParseErrors")
GetBuiltinPositions(w) == Getter(w, "GetBuiltinPositions", "builtinPositionsFile")
SetBuiltinPositions(w) == Setter(w, "SetBuiltinPositions", "builtinPositionsFile")

\* ------------------------------------------- GetAllDiagnosticsForURI
ParseErrorsWinFromTwo(p) == p.ok /\ len(p.val) > 1

\* ok && len(parseDiags) > 0
ParseErrorsWin(p) == p.ok /\ len(p.val) > 0

MergePrepends(all, r) == IF r.ok THEN append(r.val, all) ELSE all

\* if ok { allDiags = append(allDiags, diags...) }
MergeReplaces(all, r) == IF r.ok THEN r.val ELSE all

Merge(all, r) == IF r.ok THEN append(all, r.val) ELSE all

\* the three lookups of GetAllDiagnosticsForURI, each under its own mutex
GetAllDiagnosticsForURI(w) ==
    \/ /\ call[w].fn = "GetAllDiagnosticsForURI"
       /\ Lock(w, "diagnosticsParseErrors", "parse_lock", "parse_body")
    \/ /\ call[w].fn = "GetAllDiagnosticsForURI"
       /\ pc[w] = "parse_body"
       /\ LET p == Lookup("diagnosticsParseErrors", call[w].uri)
          IN IF ParseErrorsWin(p)
             THEN /\ pc' = [pc EXCEPT ![w] = "done"]
                  /\ local' = [local EXCEPT ![w].parseDiags = p]
                  /\ ret' = [ret EXCEPT ![w] = p.val]
             ELSE /\ pc' = [pc EXCEPT ![w] = "agg_lock"]
                  /\ local' = [local EXCEPT ![w].parseDiags = p,
                                            ![w].allDiags = Slice(<<>>)]
                  /\ ret' = ret
       /\ mu' = Unlock("diagnosticsParseErrors")
       /\ UNCHANGED <<cache, call, interf, deleted, nops, aggVars, hist>>
    \/ /\ call[w].fn = "GetAllDiagnosticsForURI"
       /\ Lock(w, "diagnosticsAggregate", "agg_lock", "agg_body")
    \/ /\ call[w].fn = "GetAllDiagnosticsForURI"
       /\ pc[w] = "agg_body"
       /\ pc' = [pc EXCEPT ![w] = "file_lock"]
       /\ LET a == Lookup("diagnosticsAggregate", call[w].uri)
          IN local' = [local EXCEPT ![w].aggDiags = a,
                                    ![w].allDiags = Merge(@, a)]
       /\ mu' = Unlock("diagnosticsAggregate")
       /\ UNCHANGED <<cache, call, ret, interf, deleted, nops, aggVars, hist>>
    \/ /\ call[w].fn = "GetAllDiagnosticsForURI"
       /\ Lock(w, "diagnosticsFile", "file_lock", "file_body")
    \/ /\ call[w].fn = "GetAllDiagnosticsForURI"
       /\ pc[w] = "file_body"
       /\ pc' = [pc EXCEPT ![w] = "done"]
       /\ LET f == Lookup("diagnosticsFile", call[w].uri)
              all == Merge(local[w].allDiags, f)
          IN /\ local' = [local EXCEPT ![w].fileDiags = f, ![w].allDiags = all]
             /\ ret' = [ret EXCEPT ![w] = all]
       /\ mu' = Unlock("diagnosticsFile")
       /\ UNCHANGED <<cache, call, interf, deleted, nops, aggVars, hist>>

\* GetAllDiagnosticsForURI run with no other goroutine in between
MergedView(u) ==
    LET p == Lookup("diagnosticsParseErrors", u)
    IN IF ParseErrorsWin(p)
       THEN p.val
       ELSE Merge(Merge(Slice(<<>>), Lookup("diagnosticsAggregate", u)),
                  Lookup("diagnosticsFile", u))

\* ------------------------------------------------------------ Delete
DeleteOrderSkipsPositions ==
    <<"fileContents", "modules", "diagnosticsFile", "diagnosticsAggregate",
      "diagnosticsParseErrors", "diagnosticsParseErrors">>

DeleteOrderSkipsModules ==
    <<"fileContents", "fileContents", "diagnosticsFile", "diagnosticsAggregate",
      "diagnosticsParseErrors", "builtinPositionsFile">>

\* the maps in the order Delete locks them
DeleteOrder ==
    <<"fileContents", "modules", "diagnosticsFile", "diagnosticsAggregate",
      "diagnosticsParseErrors", "builtinPositionsFile">>

\* the map Delete is at
DeleteMap(w) == DeleteOrder[local[w].i]

\* Delete: for each map in turn, Lock, delete(map, uri), Unlock
Delete(w) ==
    \/ /\ call[w].fn = "Delete"
       /\ Lock(w, DeleteMap(w), "lock", "body")
    \/ /\ call[w].fn = "Delete"
       /\ pc[w] = "body"
       /\ cache' = [cache EXCEPT ![DeleteMap(w)] = MapDelete(@, call[w].uri)]
       /\ mu' = Unlock(DeleteMap(w))
       /\ interf' = Interfere(w, "delete")
       /\ IF local[w].i < Len(DeleteOrder)
          THEN /\ local' = [local EXCEPT ![w].i = @ + 1]
               /\ pc' = [pc EXCEPT ![w] = "lock"]
               /\ UNCHANGED deleted
          ELSE /\ pc' = [pc EXCEPT ![w] = "done"]
               /\ deleted' = [deleted EXCEPT ![call[w].uri] =
                                 IF "set" \in interf[w] THEN "dirty" ELSE "clean"]
               /\ UNCHANGED local
       /\ hist' = [hist EXCEPT ![DeleteMap(w)][call[w].uri] = Deleted]
       /\ UNCHANGED <<call, ret, nops, aggVars>>

\* ---------------------------------------- UpdateCacheForURIFromDisk
\* what os.ReadFile(path) can return
ReadResults == {[content |-> c, err |-> FALSE] : c \in Contents}
                  \cup {[content |-> "", err |-> TRUE]}

ErrIgnored(r) == FALSE

\* err != nil
ReadFailed(r) == r.err

ComparisonInverted(c, currentContent) == c.ok /\ c.val # currentContent

\* ok && cachedContent == currentContent
Unchanged(c, currentContent) == c.ok /\ c.val = currentContent

UnchangedReturnsEmpty(cachedContent) == [content |-> "", err |-> FALSE]

\* return cachedContent, nil
UnchangedResult(cachedContent) == [content |-> cachedContent, err |-> FALSE]

UpdateCacheForURIFromDisk(w) ==
    \/ /\ call[w].fn = "UpdateCacheForURIFromDisk"
       /\ pc[w] = "read"
       /\ \E r \in ReadResults :
             IF ReadFailed(r)
             THEN /\ pc' = [pc EXCEPT ![w] = "done"]
                  /\ local' = [local EXCEPT ![w].err = r.err]
                  /\ ret' = [ret EXCEPT ![w] = [content |-> "", err |-> TRUE]]
             ELSE /\ pc' = [pc EXCEPT ![w] = "get_lock"]
                  /\ local' = [local EXCEPT ![w].err = r.err,
                                            ![w].currentContent = r.content]
                  /\ ret' = ret
       /\ UNCHANGED <<cache, mu, call, interf, deleted, nops, aggVars, hist>>
    \/ /\ call[w].fn = "UpdateCacheForURIFromDisk"
       /\ Lock(w, "fileContents", "get_lock", "get_body")
    \/ /\ call[w].fn = "UpdateCacheForURIFromDisk"
       /\ pc[w] = "get_body"
       /\ LET c == Lookup("fileContents", call[w].uri)
          IN /\ IF Unchanged(c, local[w].currentContent)
                THEN /\ pc' = [pc EXCEPT ![w] = "done"]
                     /\ ret' = [ret EXCEPT ![w] = UnchangedResult(c.val)]
                ELSE /\ pc' = [pc EXCEPT ![w] = "set_lock"]
                     /\ ret' = ret
             /\ local' = [local EXCEPT ![w].cachedContent = c]
       /\ mu' = Unlock("fileContents")
       /\ UNCHANGED <<cache, call, interf, deleted, nops, aggVars, hist>>
    \/ /\ call[w].fn = "UpdateCacheForURIFromDisk"
       /\ Lock(w, "fileContents", "set_lock", "set_body")
    \/ /\ call[w].fn = "UpdateCacheForURIFromDisk"
       /\ pc[w] = "set_body"
       /\ pc' = [pc EXCEPT ![w] = "done"]
       /\ cache' = Store("fileContents", call[w].uri, local[w].currentContent)
       /\ mu' = Unlock("fileContents")
       /\ local' = [local EXCEPT ![w].wrote = TRUE]
       /\ ret' = [ret EXCEPT ![w] =
                     [content |-> local[w].currentContent, err |-> FALSE]]
       /\ interf' = Interfere(w, "set")
       /\ deleted' = [deleted EXCEPT ![call[w].uri] = "none"]
       /\ hist' = [hist EXCEPT !["fileContents"][call[w].uri] = WasSet(local[w].currentContent)]
       /\ UNCHANGED <<call, nops, aggVars>>

\* ------------------------------------- missing-metadata aggregation
\* the files of the workspace, numbered in the order of their identifiers
NumFiles == 2
Files == 1..NumFiles
PackagePaths == {<<"foo", "bar">>, <<"foo", "baz">>}
RuleNames == {"baz", "rule"}
RuleStates == {"absent", "plain", "annotated"}

\* the modules file f can hold: a package, with or without a METADATA block,
\* then the rules baz and rule, each absent, plain, or under a METADATA block
ParsedModules(f) ==
    [file : {f}, path : PackagePaths, annotated : BOOLEAN,
     rules : [RuleNames -> RuleStates]]

\* a METADATA block is two comment lines
MetadataLines(annotated) == IF annotated THEN 2 ELSE 0

\* the row of the package keyword
PackageRow(m) == MetadataLines(m.annotated) + 1

HeadText(name) == IF name = "baz" THEN "baz := true" ELSE "rule := true"

\* the row of a rule head: a blank line and the rule's METADATA block come
\* before it
RuleRow(m, name) ==
    LET bazRow == PackageRow(m) + 1 + MetadataLines(m.rules["baz"] = "annotated") + 1
        last == IF m.rules["baz"] = "absent" THEN PackageRow(m) ELSE bazRow
    IN IF name = "baz"
       THEN bazRow
       ELSE last + 1 + MetadataLines(m.rules["rule"] = "annotated") + 1

Texts == {"package", "baz := true", "rule := true"}

\* the text of a location is carried base64-encoded
Base64(text) ==
    CASE text = "package" -> "cGFja2FnZQ=="
      [] text = "baz := true" -> "YmF6IDo9IHRydWU="
      [] text = "rule := true" -> "cnVsZSA6PSB0cnVl"

Base64Decode(t) == CHOOSE text \in Texts : Base64(text) = t

\* "row:col:base64(text)"
ToLocation(row, col, text) == <<row, col, Base64(text)>>

FromLocationKeepsEncoding(l, file) ==
    [row |-> l[1], col |-> l[2], text |-> l[3], file |-> file]

\* the location object of a violation
FromLocation(l, file) ==
    [row |-> l[1], col |-> l[2], text |-> Base64Decode(l[3]), file |-> file]

RulePaths(m) == {m.path \o <<n>> : n \in {x \in RuleNames : m.rules[x] # "absent"}}
Name(r) == r[Len(r)]

\* the aggregate entry of one module
aggregate(m) ==
    [aggregate_data |->
        [package_annotated |-> m.annotated,
         package_location |-> ToLocation(PackageRow(m), 1, "package"),
         rule_annotations |->
            [r \in RulePaths(m) |-> {m.rules[Name(r)] = "annotated"}],
         rule_locations |->
            [r \in RulePaths(m) |-> ToLocation(RuleRow(m, Name(r)), 1, HeadText(Name(r)))]],
     aggregate_source |-> [file |-> m.file, package_path |-> m.path],
     rule |-> [category |-> "custom", title |-> "missing-metadata"]]

Violation(location) ==
    [category |-> "custom",
     title |-> "missing-metadata",
     description |-> "Package or rule missing metadata",
     level |-> "error",
     location |-> location,
     related_resources |->
        <<[description |-> "documentation", ref |-> "$baseUrl/custom/missing-metadata"]>>]

\* the entries contributed for one package path
PackageAggs(aggs, path) == {e \in aggs : e.aggregate_source.package_path = path}

PackageUndocumentedByOne(items) ==
    \E e \in items : ~e.aggregate_data.package_annotated

\* a package is undocumented when no contributor shows it annotated
PackageUndocumented(items) ==
    \A e \in items : ~e.aggregate_data.package_annotated

\* the contributor a violation is attributed to: the smallest file identifier
FirstItem(items) ==
    CHOOSE e \in items :
        \A o \in items : e.aggregate_source.file <= o.aggregate_source.file

\* the entries that define rule r
RuleAggs(aggs, r) == {e \in aggs : r \in DOMAIN e.aggregate_data.rule_annotations}

RuleAnnotationsWithPackage(aggs, r) ==
    UNION {e.aggregate_data.rule_annotations[r] \cup {e.aggregate_data.package_annotated}
              : e \in RuleAggs(aggs, r)}

\* the annotation states contributed for rule r, whichever file supplied them
RuleAnnotations(aggs, r) ==
    UNION {e.aggregate_data.rule_annotations[r] : e \in RuleAggs(aggs, r)}

\* the violations of the missing-metadata category over the union of entries
aggregate_report(aggs) ==
    LET paths == {e.aggregate_source.package_path : e \in aggs}
        rules == UNION {DOMAIN e.aggregate_data.rule_annotations : e \in aggs}
        packageViolations ==
            {Violation(FromLocation(
                 FirstItem(PackageAggs(aggs, path)).aggregate_data.package_location,
                 FirstItem(PackageAggs(aggs, path)).aggregate_source.file))
               : path \in {q \in paths : PackageUndocumented(PackageAggs(aggs, q))}}
        ruleViolations ==
            {Violation(FromLocation(
                 FirstItem(RuleAggs(aggs, r)).aggregate_data.rule_locations[r],
                 FirstItem(RuleAggs(aggs, r)).aggregate_source.file))
               : r \in {q \in rules : TRUE \notin RuleAnnotations(aggs, q)}}
    IN packageViolations \cup ruleViolations

\* the orders in which a set of entries can be presented to the evaluation
Orders(aggs) ==
    {o \in [1..Cardinality(aggs) -> aggs] :
        \A i, j \in 1..Cardinality(aggs) : i # j => o[i] # o[j]}

BetterNever(e, best) == FALSE

\* entry e, met later in the iteration, replaces the candidate best: the
\* smaller file identifier wins
Better(e, best) == e.aggregate_source.file < best.aggregate_source.file

RECURSIVE Pick(_, _)
\* the candidate left after iterating over the entries of order
Pick(order, best) ==
    IF order = <<>>
    THEN best
    ELSE Pick(Tail(order), IF Better(Head(order), best) THEN Head(order) ELSE best)

\* the contributor a violation is attributed to, found by iterating over the
\* entries in the order presented
FirstItemIn(order) == Pick(Tail(order), Head(order))

PackageAggsIn(order, path) ==
    SelectSeq(order, LAMBDA e : e.aggregate_source.package_path = path)

RuleAggsIn(order, r) ==
    SelectSeq(order, LAMBDA e : r \in DOMAIN e.aggregate_data.rule_annotations)

\* the report evaluated by iterating over the entries in the order presented
aggregate_report_in(order) ==
    LET aggs == {order[i] : i \in 1..Len(order)}
        paths == {e.aggregate_source.package_path : e \in aggs}
        rules == UNION {DOMAIN e.aggregate_data.rule_annotations : e \in aggs}
        packageViolations ==
            {Violation(FromLocation(
                 FirstItemIn(PackageAggsIn(order, path)).aggregate_data.package_location,
                 FirstItemIn(PackageAggsIn(order, path)).aggregate_source.file))
               : path \in {q \in paths : PackageUndocumented(PackageAggs(aggs, q))}}
        ruleViolations ==
            {Violation(FromLocation(
                 FirstItemIn(RuleAggsIn(order, r)).aggregate_data.rule_locations[r],
                 FirstItemIn(RuleAggsIn(order, r)).aggregate_source.file))
               : r \in {q \in rules : TRUE \notin RuleAnnotations(aggs, q)}}
    IN packageViolations \cup ruleViolations

\* the AggregateState: the union of the current entries
AggregateState == {contributions[f] : f \in DOMAIN contributions}

\* contribute(id, category, contribution): the analysis of file f records or
\* replaces f's entry
Contribute(f) ==
    /\ phase = "collect"
    /\ \E m \in ParsedModules(f) :
          /\ sources' = MapSet(sources, f, m)
          /\ contributions' = MapSet(contributions, f, aggregate(m))
    /\ UNCHANGED <<report, phase, pending, cacheVars>>

\* recompute(category): the report over the union of the current entries,
\* presented to the evaluation in some order
Recompute ==
    /\ phase = "collect"
    /\ \E order \in Orders(AggregateState) : report' = aggregate_report_in(order)
    /\ phase' = "reported"
    /\ UNCHANGED <<sources, contributions, pending, cacheVars>>

\* the caller has taken the report
TakeReport ==
    /\ phase = "reported"
    /\ report' = {}
    /\ phase' = "collect"
    /\ UNCHANGED <<sources, contributions, pending, cacheVars>>

\* ------------------------------------------------------ specifications
\* every function of the cache, called by every goroutine
Next ==
    \E w \in Workers :
        \/ Call(w)
        \/ Return(w)
        \/ GetFileContents(w)
        \/ SetFileContents(w)
        \/ GetModule(w)
        \/ SetModule(w)
        \/ GetFileDiagnostics(w)
        \/ SetFileDiagnostics(w)
        \/ ClearFileDiagnostics(w)
        \/ GetAggregateDiagnostics(w)
        \/ SetAggregateDiagnostics(w)
        \/ ClearAggregateDiagnostics(w)
        \/ GetParseErrors(w)
        \/ SetParseErrors(w)
        \/ GetBuiltinPositions(w)
        \/ SetBuiltinPositions(w)
        \/ GetAllDiagnosticsForURI(w)
        \/ Delete(w)
        \/ UpdateCacheForURIFromDisk(w)

Spec == Init /\ [][Next]_vars

\* the diagnostics store: the three diagnostics maps, their merged read, and
\* Delete
DiagFunctions == DiagSetters \cup Clears \cup {"GetAllDiagnosticsForURI", "Delete"}

NextDiag ==
    \E w \in Workers :
        \/ CallIn(w, DiagFunctions)
        \/ Return(w)
        \/ SetFileDiagnostics(w)
        \/ ClearFileDiagnostics(w)
        \/ SetAggregateDiagnostics(w)
        \/ ClearAggregateDiagnostics(w)
        \/ SetParseErrors(w)
        \/ GetAllDiagnosticsForURI(w)
        \/ Delete(w)

SpecDiag == Init /\ [][NextDiag]_vars

\* the document and structure stores: content, module, the load from disk,
\* and Delete
DocFunctions == {"SetFileContents", "GetFileContents", "SetModule", "GetModule",
                 "UpdateCacheForURIFromDisk", "Delete"}

NextDoc ==
    \E w \in Workers :
        \/ CallIn(w, DocFunctions)
        \/ Return(w)
        \/ GetFileContents(w)
        \/ SetFileContents(w)
        \/ GetModule(w)
        \/ SetModule(w)
        \/ UpdateCacheForURIFromDisk(w)
        \/ Delete(w)

SpecDoc == Init /\ [][NextDoc]_vars

\* invalidation: every setter, and Delete
DelFunctions == Setters \cup {"Delete"}

NextDel ==
    \E w \in Workers :
        \/ CallWith(w, DelFunctions, [f \in DelFunctions |-> OneArg(f)])
        \/ Return(w)
        \/ SetFileContents(w)
        \/ SetModule(w)
        \/ SetFileDiagnostics(w)
        \/ SetAggregateDiagnostics(w)
        \/ SetParseErrors(w)
        \/ SetBuiltinPositions(w)
        \/ Delete(w)

SpecDel == Init /\ [][NextDel]_vars

\* the aggregation engine for the missing-metadata category
NextAgg ==
    \/ \E f \in Files : Contribute(f)
    \/ Recompute
    \/ TakeReport

SpecAgg == Init /\ [][NextAgg]_vars

\* ------------------------------------------------------------ properties
Present(m, u) == u \in DOMAIN cache[m]
Absent(u) == \A m \in MapNames : ~Present(m, u)
Running(w, f) == call[w].fn = f /\ pc[w] \notin {"idle", "done"}
Returned(w, f) == call[w].fn = f /\ pc[w] = "done"
Part(r) == IF r.ok THEN r.val.elems ELSE <<>>
SourceOrder ==
    <<"fileContents", "modules", "diagnosticsFile", "diagnosticsAggregate",
      "diagnosticsParseErrors", "builtinPositionsFile">>

\* C1: when the parse-error map holds a non-empty list for the URI at the step
\* in which GetAllDiagnosticsForURI reads it, the call returns at that step,
\* and returns exactly that list, whatever the other maps hold and whatever
\* the other goroutines do.
Precedence ==
    [][\A w \in Workers :
          (/\ call[w].fn = "GetAllDiagnosticsForURI"
           /\ pc[w] = "parse_body"
           /\ pc'[w] # "parse_body"
           /\ Present("diagnosticsParseErrors", call[w].uri)
           /\ len(cache.diagnosticsParseErrors[call[w].uri]) > 0)
          => (/\ pc'[w] = "done"
              /\ ret'[w] = cache.diagnosticsParseErrors[call[w].uri])]_vars

\* a merged read has returned the parse errors while the file-local map holds
\* findings for the URI and another goroutine wrote to the URI during the call
PrecedenceWitness ==
    \E w \in Workers :
        /\ Returned(w, "GetAllDiagnosticsForURI")
        /\ local[w].parseDiags.ok
        /\ len(local[w].parseDiags.val) > 0
        /\ ret[w] = local[w].parseDiags.val
        /\ Present("diagnosticsFile", call[w].uri)
        /\ len(cache.diagnosticsFile[call[w].uri]) > 0
        /\ interf[w] # {}

\* C8: when the parse-error entry read is absent or empty, the merged read
\* returns the aggregate list it read followed by the file-local list it
\* read, a missing entry contributing nothing, and the result is a non-nil
\* list even when both are absent.
MergedRead ==
    \A w \in Workers :
        (/\ Returned(w, "GetAllDiagnosticsForURI")
         /\ ~(local[w].parseDiags.ok /\ len(local[w].parseDiags.val) > 0))
        => (/\ ~ret[w].isNil
            /\ ret[w].elems = Part(local[w].aggDiags) \o Part(local[w].fileDiags))

\* a merged read has returned an aggregate finding followed by a file-local one
MergedReadWitness ==
    \E w \in Workers :
        /\ Returned(w, "GetAllDiagnosticsForURI")
        /\ ~local[w].parseDiags.ok
        /\ local[w].aggDiags.ok /\ len(local[w].aggDiags.val) > 0
        /\ local[w].fileDiags.ok /\ len(local[w].fileDiags.val) > 0
        /\ ret[w].elems = local[w].aggDiags.val.elems \o local[w].fileDiags.val.elems

\* a merged read has returned the empty non-nil list, nothing being stored
MergedReadEmptyWitness ==
    \E w \in Workers :
        /\ Returned(w, "GetAllDiagnosticsForURI")
        /\ ~local[w].parseDiags.ok /\ ~local[w].aggDiags.ok /\ ~local[w].fileDiags.ok
        /\ ret[w] = Slice(<<>>)

\* C2 as stated: once a Delete of the URI has returned and no set of that URI
\* has written since it returned, the URI is in none of the six maps.
AbsentAfterDeleteReturned ==
    \A u \in URIs : deleted[u] # "none" => Absent(u)

\* C2, amended: once a Delete of the URI has returned and no set of that URI
\* has written since that Delete was called, the URI is in none of the six
\* maps and its merged read is the empty list; and no step of Delete changes
\* the entry of another URI in any map.
InvalidationComplete ==
    /\ [](\A u \in URIs :
            deleted[u] = "clean" => (Absent(u) /\ MergedView(u) = Slice(<<>>)))
    /\ [][\A w \in Workers :
            (call[w].fn = "Delete" /\ pc[w] = "body" /\ pc'[w] # "body")
            => \A v \in URIs \ {call[w].uri} : \A m \in MapNames :
                  /\ (v \in DOMAIN cache'[m]) = (v \in DOMAIN cache[m])
                  /\ v \in DOMAIN cache[m] => cache'[m][v] = cache[m][v]]_vars

\* a Delete of a URI that had entries has returned, no set of the URI overlapped
\* it, and another URI still has an entry
InvalidationWitness ==
    \E w \in Workers :
        /\ Returned(w, "Delete")
        /\ Cardinality(local[w].before) >= 1
        /\ deleted[call[w].uri] = "clean"
        /\ Absent(call[w].uri)
        /\ \E v \in URIs \ {call[w].uri} : ~Absent(v)

\* C3 as stated: while a Delete is in progress and nothing else writes to the
\* URI, there is no state in which the URI is gone from one map that held it
\* and still in another map that held it, both maps being unlocked for a
\* reader.
NoPartialDelete ==
    \A w \in Workers :
        (Running(w, "Delete") /\ interf[w] = {})
        => ~\E m1, m2 \in local[w].before :
               /\ ~Present(m1, call[w].uri) /\ mu[m1] = NoWorker
               /\ Present(m2, call[w].uri) /\ mu[m2] = NoWorker

\* C3, amended: Delete empties the maps one at a time in the order of the
\* source; while it runs the URI is absent from every map Delete has passed,
\* unless a set of the URI has written since Delete was called,
\* and a map Delete has not reached still holds the entry it held when Delete
\* was called, unless another goroutine wrote to the URI meanwhile.
DeleteInOrder ==
    \A w \in Workers :
        Running(w, "Delete")
        => \A j \in 1..Len(SourceOrder) :
              /\ ("set" \notin interf[w] /\ j < local[w].i)
                  => ~Present(SourceOrder[j], call[w].uri)
              /\ (interf[w] = {} /\ j >= local[w].i
                    /\ SourceOrder[j] \in local[w].before)
                  => Present(SourceOrder[j], call[w].uri)

\* a Delete is half way: the content entry is gone, the position index entry
\* is still there, nothing else wrote to the URI
DeleteInOrderWitness ==
    \E w \in Workers :
        /\ Running(w, "Delete")
        /\ interf[w] = {}
        /\ local[w].i > 1
        /\ {"fileContents", "builtinPositionsFile"} \subseteq local[w].before
        /\ ~Present("fileContents", call[w].uri)
        /\ Present("builtinPositionsFile", call[w].uri)

NoOpWrite ==
    [][\A w \in Workers :
          (/\ call[w].fn = "UpdateCacheForURIFromDisk"
           /\ pc[w] = "get_body"
           /\ pc'[w] # "get_body"
           /\ Present("fileContents", call[w].uri)
           /\ cache.fileContents[call[w].uri] = local[w].currentContent)
          => (/\ cache' = cache
              /\ pc'[w] = "done"
              /\ ~local'[w].wrote
              /\ ret'[w] = [content |-> cache.fileContents[call[w].uri],
                            err |-> FALSE])]_vars

\* a load from disk has returned without writing, the content read being the
\* cached one
NoOpWriteWitness ==
    \E w \in Workers :
        /\ Returned(w, "UpdateCacheForURIFromDisk")
        /\ ~local[w].err
        /\ ~local[w].wrote
        /\ local[w].cachedContent.ok
        /\ local[w].cachedContent.val = local[w].currentContent
        /\ ret[w].content = local[w].currentContent
        /\ cache.fileContents[call[w].uri] = local[w].currentContent

\* C6 as stated: the value returned by UpdateCacheForURIFromDisk tells whether
\* the call changed the cached content: a call that wrote and a call that did
\* not never return the same value.
ChangeSignal ==
    \A w1, w2 \in Workers :
        (/\ Returned(w1, "UpdateCacheForURIFromDisk")
         /\ Returned(w2, "UpdateCacheForURIFromDisk")
         /\ ~local[w1].err /\ ~local[w2].err
         /\ local[w1].wrote /\ ~local[w2].wrote)
        => ret[w1] # ret[w2]

\* C6, amended: a successful UpdateCacheForURIFromDisk returns the content it
\* read from disk and no error, whether it overwrote the cached value or found
\* it identical; SetFileContents returns nothing.
ReturnsDiskContent ==
    \A w \in Workers :
        /\ (Returned(w, "UpdateCacheForURIFromDisk") /\ ~local[w].err)
           => ret[w] = [content |-> local[w].currentContent, err |-> FALSE]
        /\ call[w].fn = "SetFileContents" => ret[w] = Void

\* two loads from disk have returned the same value, one having overwritten the
\* cache and the other not
SameReturnWitness ==
    \E w1, w2 \in Workers :
        /\ Returned(w1, "UpdateCacheForURIFromDisk")
        /\ Returned(w2, "UpdateCacheForURIFromDisk")
        /\ ~local[w1].err /\ ~local[w2].err
        /\ local[w1].wrote /\ ~local[w2].wrote
        /\ ret[w1] = ret[w2]

\* C7: when the disk read of UpdateCacheForURIFromDisk fails, the call returns
\* at that step with an error and empty content, and every map is as it was.
ReadFailureKeepsCache ==
    [][\A w \in Workers :
          (/\ call[w].fn = "UpdateCacheForURIFromDisk"
           /\ pc[w] = "read"
           /\ local'[w].err)
          => (/\ cache' = cache
              /\ pc'[w] = "done"
              /\ ~local'[w].wrote
              /\ ret'[w] = [content |-> "", err |-> TRUE])]_vars

\* a load from disk has failed on a URI whose content is cached
ReadFailureWitness ==
    \E w \in Workers :
        /\ Returned(w, "UpdateCacheForURIFromDisk")
        /\ local[w].err
        /\ ret[w] = [content |-> "", err |-> TRUE]
        /\ Present("fileContents", call[w].uri)

Contributors(path) == {f \in DOMAIN sources : sources[f].path = path}
PackageDiags(path) ==
    {v \in report : v.location.text = "package" /\ v.location.file \in Contributors(path)}
RuleContributors(path, name) ==
    {f \in Contributors(path) : sources[f].rules[name] # "absent"}
RuleDiags(path, name) ==
    {v \in report : /\ v.location.text = HeadText(name)
                    /\ v.location.file \in RuleContributors(path, name)}

\* C9: a report holds a violation for a contributed package path if and only
\* if no file contributing that path has the package annotated; if so it holds
\* exactly one, at the package keyword of a contributing file: the row of its
\* package declaration, column 1, text "package".
PackageMergeLaw ==
    phase = "reported" =>
        \A path \in PackagePaths :
            /\ PackageDiags(path) # {}
                  <=> (/\ Contributors(path) # {}
                       /\ \A f \in Contributors(path) : ~sources[f].annotated)
            /\ PackageDiags(path) # {}
                  => \E f \in Contributors(path) :
                        PackageDiags(path) =
                           {Violation([row |-> PackageRow(sources[f]), col |-> 1,
                                       text |-> "package", file |-> f])}

\* a report over one annotated and one unannotated contribution of the same
\* package path holds no violation for the package
PackageMergeWitness ==
    /\ phase = "reported"
    /\ \E f, g \in DOMAIN sources :
          /\ sources[f].path = sources[g].path
          /\ sources[f].annotated /\ ~sources[g].annotated
          /\ PackageDiags(sources[f].path) = {}

\* a report over a single unannotated contribution holds exactly one violation,
\* at the package keyword
PackageAloneWitness ==
    /\ phase = "reported"
    /\ \E f \in Files :
          /\ DOMAIN sources = {f}
          /\ ~sources[f].annotated
          /\ report = {Violation([row |-> 1, col |-> 1, text |-> "package", file |-> f])}

\* C10: a report holds no violation for a rule that some contributing file
\* annotates, and exactly one, at the rule head of a contributing file, for a
\* rule that no contributing file annotates, whether or not the package is
\* annotated.
RuleJudgedAlone ==
    phase = "reported" =>
        \A path \in PackagePaths : \A name \in RuleNames :
            /\ (\E f \in RuleContributors(path, name) : sources[f].rules[name] = "annotated")
                  => RuleDiags(path, name) = {}
            /\ (/\ RuleContributors(path, name) # {}
                /\ \A f \in RuleContributors(path, name) : sources[f].rules[name] = "plain")
                  => \E f \in RuleContributors(path, name) :
                        RuleDiags(path, name) =
                           {Violation([row |-> RuleRow(sources[f], name), col |-> 1,
                                       text |-> HeadText(name), file |-> f])}

\* a report over an annotated package with the plain rule baz holds exactly one
\* violation, at the head of baz, and none for the package
RuleJudgedAloneWitness ==
    /\ phase = "reported"
    /\ \E f \in Files :
          /\ DOMAIN sources = {f}
          /\ sources[f].annotated
          /\ sources[f].rules["baz"] = "plain"
          /\ sources[f].rules["rule"] = "absent"
          /\ report = {Violation([row |-> 5, col |-> 1, text |-> "baz := true", file |-> f])}

\* ------------------------------------------------- the store, map by map
\* three of the six maps, one of each shape: the content map, the file-local
\* diagnostics map with its clear, the parse-error map; and Delete. The
\* diagnostics setters store an empty or a non-empty list
StoreFunctions ==
    {"GetFileContents", "SetFileContents",
     "GetFileDiagnostics", "SetFileDiagnostics", "ClearFileDiagnostics",
     "GetParseErrors", "SetParseErrors", "Delete"}

NextStore ==
    \E w \in Workers :
        \/ CallIn(w, StoreFunctions)
        \/ Return(w)
        \/ GetFileContents(w)
        \/ SetFileContents(w)
        \/ GetFileDiagnostics(w)
        \/ SetFileDiagnostics(w)
        \/ ClearFileDiagnostics(w)
        \/ GetParseErrors(w)
        \/ SetParseErrors(w)
        \/ Delete(w)

SpecStore == Init /\ [][NextStore]_vars

\* the map a getter reads
GetterMap(f) ==
    CASE f = "GetFileContents" -> "fileContents"
      [] f = "GetModule" -> "modules"
      [] f = "GetFileDiagnostics" -> "diagnosticsFile"
      [] f = "GetAggregateDiagnostics" -> "diagnosticsAggregate"
      [] f = "GetParseErrors" -> "diagnosticsParseErrors"
      [] f = "GetBuiltinPositions" -> "builtinPositionsFile"

\* C13: in every map an entry is present exactly when the last write that
\* took effect on it was a set (not creation, the Delete of the URI, or a
\* clear of the map), and then holds the value set; the step in which a getter
\* reads returns found with that value, or not-found with the zero value; so a
\* set of an empty list is returned as found with an empty list.
FoundFlag ==
    /\ [](\A m \in MapNames : \A u \in URIs :
            /\ Present(m, u) <=> hist[m][u].state = "set"
            /\ Present(m, u) => cache[m][u] = hist[m][u].val)
    /\ [][\A w \in Workers :
            (call[w].fn \in Getters /\ pc[w] = "body" /\ pc'[w] = "done")
            => LET m == GetterMap(call[w].fn)
                   h == hist[m][call[w].uri]
               IN /\ ret'[w].ok <=> h.state = "set"
                  /\ ret'[w].ok => ret'[w].val = h.val
                  /\ ~ret'[w].ok => ret'[w].val = Zero(m)]_vars

\* one getter has returned found with the empty list that was set, another has
\* returned not-found for a URI never analysed
FoundFlagWitness ==
    \E w, v \in Workers :
        /\ Returned(w, "GetFileDiagnostics")
        /\ ret[w] = [val |-> Slice(<<>>), ok |-> TRUE]
        /\ hist["diagnosticsFile"][call[w].uri].state = "set"
        /\ Returned(v, "GetFileDiagnostics")
        /\ ret[v] = [val |-> NilDiags, ok |-> FALSE]
        /\ hist["diagnosticsFile"][call[v].uri].state = "never"

\* a getter has returned not-found for an entry that was set and then removed
\* by Delete
NotFoundAfterDeleteWitness ==
    \E w \in Workers :
        /\ Returned(w, "GetParseErrors")
        /\ ~ret[w].ok
        /\ hist["diagnosticsParseErrors"][call[w].uri].state = "deleted"

\* C12: whatever the order in which the entries of an AggregateState are
\* presented, the report is the same set of violations: the one returned,
\* which is the report of the entries taken as a set, with the same file and
\* location for each undocumented package and rule.
Determinism ==
    phase = "reported" =>
        /\ report = aggregate_report(AggregateState)
        /\ \A order \in Orders(AggregateState) : aggregate_report_in(order) = report

\* a report over two files that contribute the same package path, neither
\* annotating it: the one violation is at the package keyword of the first file
DeterminismWitness ==
    /\ phase = "reported"
    /\ \E f, g \in DOMAIN sources :
          /\ f < g
          /\ sources[f].path = sources[g].path
          /\ ~sources[f].annotated /\ ~sources[g].annotated
          /\ PackageRow(sources[f]) # PackageRow(sources[g])
             \/ sources[f].rules # sources[g].rules
          /\ PackageDiags(sources[f].path) =
                {Violation([row |-> PackageRow(sources[f]), col |-> 1,
                            text |-> "package", file |-> f])}

\* ------------------------------------- the aggregation pass over the cache
\* the files of the cache, numbered in the order of their URIs
FileOf(u) == IF u = "file:///p.rego" THEN 1 ELSE 2
URIOf(f) == IF f = 1 THEN "file:///p.rego" ELSE "file:///q.rego"

\* what the analysis sees in a cached module: content "a" is a bare package,
\* content "b" an annotated package with the plain rule baz
ParseOf(module, f) ==
    [file |-> f,
     path |-> <<"foo", "bar">>,
     annotated |-> module.parsedFrom = "b",
     rules |-> [n \in RuleNames |->
                  IF n = "baz" /\ module.parsedFrom = "b" THEN "plain" ELSE "absent"]]

\* the violations of a report located in file f, by row
DiagsAt(rep, f) ==
    LET at == {v \in rep : v.location.file = f}
    IN CHOOSE q \in [1..Cardinality(at) -> at] :
          \A i, j \in 1..Cardinality(at) : i < j => q[i].location.row < q[j].location.row

\* the goroutine of the background pass
Scanner == "w2"

\* a call made by the pass, when its goroutine is free
PipelineCall(w, f, u, x) ==
    /\ w = Scanner
    /\ pc[w] = "idle"
    /\ call' = [call EXCEPT ![w] = [fn |-> f, uri |-> u, arg |-> x]]
    /\ pc' = [pc EXCEPT ![w] = Entry(f)]
    /\ local' = [local EXCEPT ![w] = InitLocal]
    /\ UNCHANGED <<cache, mu, ret, interf, deleted, nops, hist>>

\* a call of the pass has not finished
PipelineBusy ==
    \E w \in Workers :
        call[w].fn \in {"ClearAggregateDiagnostics", "SetAggregateDiagnostics"}

\* the pass starts: the files known are those with a module in the cache, each
\* contributes the entry of its module, and the report is evaluated over them
RecomputeFromCache ==
    /\ phase = "collect"
    /\ LET src == [f \in {FileOf(u) : u \in DOMAIN cache.modules} |->
                      ParseOf(cache.modules[URIOf(f)], f)]
           entries == [f \in DOMAIN src |-> aggregate(src[f])]
       IN /\ sources' = src
          /\ contributions' = entries
          /\ \E order \in Orders({entries[f] : f \in DOMAIN entries}) :
                report' = aggregate_report_in(order)
    /\ phase' = "reported"
    /\ UNCHANGED <<pending, cacheVars>>

\* the aggregate map is cleared before the report is written back
WriteBackClear(w) ==
    /\ phase = "reported"
    /\ PipelineCall(w, "ClearAggregateDiagnostics", NoURI, Void)
    /\ phase' = "clearing"
    /\ pending' = {URIOf(v.location.file) : v \in report}
    /\ UNCHANGED <<sources, contributions, report>>

\* the violations of one file are written back: SetAggregateDiagnostics
WriteBackSet(w) ==
    /\ phase \in {"clearing", "writing"}
    /\ ~PipelineBusy
    /\ \E u \in pending :
          /\ PipelineCall(w, "SetAggregateDiagnostics", u, Slice(DiagsAt(report, FileOf(u))))
          /\ pending' = pending \ {u}
    /\ phase' = "writing"
    /\ UNCHANGED <<sources, contributions, report>>

\* every violation of the report has been written back
EndPass ==
    /\ phase \in {"clearing", "writing"}
    /\ ~PipelineBusy
    /\ pending = {}
    /\ phase' = "written"
    /\ UNCHANGED <<sources, contributions, report, pending, cacheVars>>

\* the pass is over: its entries and its report are dropped, the next pass
\* may start
NextPass ==
    /\ phase = "written"
    /\ phase' = "collect"
    /\ sources' = EmptyMap
    /\ contributions' = EmptyMap
    /\ report' = {}
    /\ UNCHANGED <<pending, cacheVars>>

\* what the editor's handler calls while the pass runs on the other goroutine
PassFunctions == {"SetModule", "Delete"}

NextPassing ==
    \/ \E w \in Workers \ {Scanner} :
          CallIn(w, PassFunctions)
    \/ \E w \in Workers :
          \/ Return(w)
          \/ SetModule(w)
          \/ Delete(w)
          \/ ClearAggregateDiagnostics(w)
          \/ SetAggregateDiagnostics(w)
          \/ WriteBackClear(w)
          \/ WriteBackSet(w)
    \/ RecomputeFromCache
    \/ EndPass
    \/ NextPass

SpecPass == Init /\ [][NextPassing]_vars

CrossFunctions ==
    {"GetAllDiagnosticsForURI", "Delete", "UpdateCacheForURIFromDisk",
     "SetFileContents", "SetParseErrors"}

NextCross ==
    \E w \in Workers :
        \/ CallWith(w, CrossFunctions, [f \in CrossFunctions |-> OneArg(f)])
        \/ Return(w)
        \/ SetFileContents(w)
        \/ SetParseErrors(w)
        \/ GetAllDiagnosticsForURI(w)
        \/ Delete(w)
        \/ UpdateCacheForURIFromDisk(w)

SpecCross == Init /\ [][NextCross]_vars

\* the program points between a Lock and its Unlock
BodyPoints == {"body", "parse_body", "agg_body", "file_body", "get_body", "set_body"}

\* the map a setter or a clear writes
WriterMap(f) ==
    CASE f = "SetFileContents" -> "fileContents"
      [] f = "SetModule" -> "modules"
      [] f \in {"SetFileDiagnostics", "ClearFileDiagnostics"} -> "diagnosticsFile"
      [] f \in {"SetAggregateDiagnostics", "ClearAggregateDiagnostics"} -> "diagnosticsAggregate"
      [] f = "SetParseErrors" -> "diagnosticsParseErrors"
      [] f = "SetBuiltinPositions" -> "builtinPositionsFile"

\* the map whose entry goroutine w is looking up, replacing or removing
TargetMap(w) ==
    CASE call[w].fn \in Getters -> GetterMap(call[w].fn)
      [] call[w].fn \in Setters \cup Clears -> WriterMap(call[w].fn)
      [] call[w].fn = "Delete" -> SourceOrder[local[w].i]
      [] call[w].fn = "UpdateCacheForURIFromDisk" -> "fileContents"
      [] call[w].fn = "GetAllDiagnosticsForURI" ->
            CASE pc[w] = "parse_body" -> "diagnosticsParseErrors"
              [] pc[w] = "agg_body" -> "diagnosticsAggregate"
              [] pc[w] = "file_body" -> "diagnosticsFile"

\* the locks goroutine w holds
Held(w) == {m \in MapNames : mu[m] = w}

\* C14: a goroutine holds a lock exactly while it is at the lookup, the
\* replacement or the removal of an entry, and then holds the lock of that
\* entry's map and no other: never two locks, and none at the disk read of
\* UpdateCacheForURIFromDisk or between the maps of a cross-map operation.
LockDiscipline ==
    \A w \in Workers :
        /\ Cardinality(Held(w)) <= 1
        /\ pc[w] \in BodyPoints => Held(w) = {TargetMap(w)}
        /\ pc[w] \notin BodyPoints => Held(w) = {}

\* Delete holds the lock of the last map, and of no other, after it has
\* released the five before it, while a load from disk holds the content lock
LockDisciplineWitness ==
    \E w, v \in Workers :
        /\ Running(w, "Delete")
        /\ pc[w] = "body"
        /\ local[w].i = Len(SourceOrder)
        /\ Held(w) = {"builtinPositionsFile"}
        /\ Running(v, "UpdateCacheForURIFromDisk")
        /\ pc[v] = "set_body"
        /\ Held(v) = {"fileContents"}

\* a load from disk is reading the file, holding no lock, while a merged read
\* holds the lock of the aggregate map
DiskReadUnlockedWitness ==
    \E w, v \in Workers :
        /\ Running(w, "UpdateCacheForURIFromDisk")
        /\ pc[w] = "read"
        /\ Held(w) = {}
        /\ Running(v, "GetAllDiagnosticsForURI")
        /\ Held(v) = {"diagnosticsAggregate"}

\* ------------------------------------------------------------- progress
\* a getter and a setter, which take one lock, and the three cross-map
\* functions, which take several one after another
LiveFunctions ==
    {"GetFileContents", "SetFileContents",
     "Delete", "GetAllDiagnosticsForURI", "UpdateCacheForURIFromDisk"}

\* the next statement of the call goroutine w is in, or the return to its caller
Step(w) ==
    \/ Return(w)
    \/ GetFileContents(w)
    \/ SetFileContents(w)
    \/ GetAllDiagnosticsForURI(w)
    \/ Delete(w)
    \/ UpdateCacheForURIFromDisk(w)

\* how many calls the callers make in a progress run
LiveOps == 2

NextLive ==
    \E w \in Workers :
        \/ /\ nops < LiveOps
           /\ CallWith(w, LiveFunctions, [f \in LiveFunctions |-> OneArg(f)])
        \/ Step(w)

\* the scheduler runs every goroutine that can run, and a goroutine waiting
\* for a mutex gets it once it stays free
SpecLive == Init /\ [][NextLive]_vars /\ \A w \in Workers : WF_pc(Step(w))

\* C15: every call that has started returns, every lock that is held is
\* released, and whenever a call is in progress some goroutine can take a step.
NoBlocking ==
    /\ \A w \in Workers : (pc[w] # "idle") ~> (pc[w] = "idle")
    /\ \A m \in MapNames : (mu[m] # NoWorker) ~> (mu[m] = NoWorker)
    /\ []((\E w \in Workers : pc[w] # "idle") => ENABLED (\E w \in Workers : Step(w)))

\* a Delete waits for the lock of the content map, which a load from disk
\* holds
NoBlockingWitness ==
    \E w, v \in Workers :
        /\ Running(w, "Delete")
        /\ pc[w] = "lock"
        /\ TargetMap(w) = "fileContents"
        /\ Running(v, "UpdateCacheForURIFromDisk")
        /\ mu["fileContents"] = v
        /\ ~ENABLED Step(w)

\* ------------------------------------------------------- last writer wins
\* the URIs other than u keep their entries of map m
OthersKept(m, u) ==
    \A v \in URIs \ {u} :
        /\ v \in DOMAIN cache'[m] <=> v \in DOMAIN cache[m]
        /\ v \in DOMAIN cache[m] => cache'[m][v] = cache[m][v]

\* C16: a set takes effect in the one step that holds the lock, storing
\* exactly its argument under its URI and touching nothing else; so the
\* stored value is always the argument of the set that completed last, also
\* when several goroutines set the same entry and when one goroutine sets it
\* again and again, and a get after it returns that value with ok = TRUE.
LastWriterWins ==
    /\ [][\A w \in Workers :
            (call[w].fn \in Setters /\ pc[w] = "body" /\ pc'[w] = "idle")
            => LET m == WriterMap(call[w].fn)
                   u == call[w].uri
               IN /\ u \in DOMAIN cache'[m]
                  /\ cache'[m][u] = call[w].arg
                  /\ OthersKept(m, u)
                  /\ \A n \in MapNames \ {m} : cache'[n] = cache[n]
                  /\ hist'[m][u].state = "set"
                  /\ hist'[m][u].val = call[w].arg]_vars
    /\ [](\A m \in MapNames : \A u \in URIs :
            hist[m][u].state = "set"
            => Present(m, u) /\ cache[m][u] = hist[m][u].val)
    /\ [][\A w \in Workers :
            (call[w].fn \in Getters /\ pc[w] = "body" /\ pc'[w] = "done"
             /\ hist[GetterMap(call[w].fn)][call[w].uri].state = "set")
            => /\ ret'[w].ok
               /\ ret'[w].val = hist[GetterMap(call[w].fn)][call[w].uri].val]_vars

\* a get returned the content one set had stored, and a second set to the
\* same URI has completed since: the cache holds the value of the second
LastWriterWinsWitness ==
    \E w \in Workers :
        /\ Returned(w, "GetFileContents")
        /\ ret[w].ok
        /\ hist["fileContents"][call[w].uri].state = "set"
        /\ hist["fileContents"][call[w].uri].val # ret[w].val
        /\ cache["fileContents"][call[w].uri] # ret[w].val

\* ------------------------------------------------------------------ clear
\* the setters of all six maps, the two clears and the getters of the two maps
\* they reset
ClearFunctions ==
    Setters \cup Clears \cup {"GetFileDiagnostics", "GetAggregateDiagnostics"}

NextClear ==
    \E w \in Workers :
        \/ CallWith(w, ClearFunctions,
                    [f \in ClearFunctions |->
                        IF f \in Clears THEN Args(f) ELSE OneArg(f)])
        \/ Return(w)
        \/ SetFileContents(w)
        \/ SetModule(w)
        \/ SetFileDiagnostics(w)
        \/ SetAggregateDiagnostics(w)
        \/ SetParseErrors(w)
        \/ SetBuiltinPositions(w)
        \/ ClearFileDiagnostics(w)
        \/ ClearAggregateDiagnostics(w)
        \/ GetFileDiagnostics(w)
        \/ GetAggregateDiagnostics(w)

SpecClear == Init /\ [][NextClear]_vars

\* C17: the step of a clear that holds the lock leaves its own map without
\* an entry for any URI and every other map as it was; a get of a URI whose
\* entry was last removed by a clear returns not found.
ClearResetsOneMap ==
    /\ [][\A w \in Workers :
            (call[w].fn \in Clears /\ pc[w] = "body" /\ pc'[w] = "idle")
            => LET m == WriterMap(call[w].fn)
               IN /\ \A u \in URIs : u \notin DOMAIN cache'[m]
                  /\ \A n \in MapNames \ {m} : cache'[n] = cache[n]]_vars
    /\ [][\A w \in Workers :
            (call[w].fn \in {"GetFileDiagnostics", "GetAggregateDiagnostics"}
             /\ pc[w] = "body" /\ pc'[w] = "done"
             /\ hist[GetterMap(call[w].fn)][call[w].uri].state = "cleared")
            => /\ ~ret'[w].ok
               /\ ret'[w].val = NilDiags]_vars

\* ClearFileDiagnostics has run while the aggregate map had an entry for a
\* URI: a get of its file diagnostics returned not found, and its aggregate
\* diagnostics are still there
ClearResetsOneMapWitness ==
    \E w \in Workers :
        /\ Returned(w, "GetFileDiagnostics")
        /\ ~ret[w].ok
        /\ hist["diagnosticsFile"][call[w].uri].state = "cleared"
        /\ Present("diagnosticsAggregate", call[w].uri)
        /\ hist["diagnosticsAggregate"][call[w].uri].state = "set"

\* ------------------------------------------------- merged read, consistency
\* the diagnostics map m holds for u, none if it has no entry
Entries(m, u) == IF u \in DOMAIN cache[m] THEN cache[m][u].elems ELSE <<>>

\* what the three diagnostics maps say about u at one instant: its parse
\* errors if it has any, else its aggregate diagnostics followed by its file
\* diagnostics
ViewNow(u) ==
    IF Entries("diagnosticsParseErrors", u) # <<>>
    THEN cache["diagnosticsParseErrors"][u]
    ELSE Slice(Entries("diagnosticsAggregate", u) \o Entries("diagnosticsFile", u))

\* C18: the merged read looks at the three maps in three steps with the locks
\* released in between. If no set, clear or Delete touched the URI between
\* the call and its return, the result is the view of the current state; with
\* such a writer the result can mix the maps' states of different instants.
WeakConsistency ==
    [][\A w \in Workers :
          (/\ call[w].fn = "GetAllDiagnosticsForURI"
           /\ pc[w] # "done"
           /\ pc'[w] = "done"
           /\ interf[w] = {})
          => ret'[w] = ViewNow(call[w].uri)']_vars

\* a merged read found no parse errors and then read aggregate diagnostics;
\* before it returns, the parse-error map has errors for the URI: it will
\* return the aggregate diagnostics of a URI that has parse errors
WeakConsistencyWitness ==
    \E w \in Workers :
        /\ Running(w, "GetAllDiagnosticsForURI")
        /\ pc[w] = "file_body"
        /\ ~ParseErrorsWin(local[w].parseDiags)
        /\ len(local[w].allDiags) > 0
        /\ "set" \in interf[w]
        /\ Entries("diagnosticsParseErrors", call[w].uri) # <<>>

\* ------------------------------------------------------ whole-map getters
\* GetAllFiles, GetAllModules and GetAllBuiltInPositions lock the map's mutex,
\* return the map field itself, and unlock: a Go map is a reference, so the
\* caller then holds the very map the cache keeps, not a copy.
MapGetters == {"GetAllFiles", "GetAllModules", "GetAllBuiltInPositions"}

\* the map each of them returns
WholeMap(f) ==
    CASE f = "GetAllFiles" -> "fileContents"
      [] f = "GetAllModules" -> "modules"
      [] f = "GetAllBuiltInPositions" -> "builtinPositionsFile"

\* return c.<m>: the result is the map m of the cache; used records what the
\* caller has done with it so far
Ref(m) == [ref |-> m, used |-> "no"]

GetAll(w, f, m) ==
    \/ call[w].fn = f /\ Lock(w, m, "lock", "body")
    \/ /\ call[w].fn = f
       /\ pc[w] = "body"
       /\ pc' = [pc EXCEPT ![w] = "done"]
       /\ ret' = [ret EXCEPT ![w] = Ref(m)]
       /\ mu' = Unlock(m)
       /\ UNCHANGED <<cache, call, local, interf, deleted, nops, aggVars, hist>>

GetAllFiles(w) == GetAll(w, "GetAllFiles", "fileContents")
GetAllModules(w) == GetAll(w, "GetAllModules", "modules")
GetAllBuiltInPositions(w) ==
    GetAll(w, "GetAllBuiltInPositions", "builtinPositionsFile")

\* goroutine w has a map of the cache in hand
HasRef(w) == call[w].fn \in MapGetters /\ pc[w] = "done"

\* the values a caller can put into map m
Values(m) ==
    CASE m = "fileContents" -> Contents
      [] m = "modules" -> Modules
      [] m = "builtinPositionsFile" -> PositionMaps

\* the caller ranges over the map it was given: for uri, x := range m.
\* It takes no lock, whoever else holds the map's mutex.
RangeOver(w) ==
    /\ HasRef(w)
    /\ ret[w].used = "no"
    /\ ret' = [ret EXCEPT ![w].used = "read"]
    /\ UNCHANGED <<cache, mu, pc, call, local, interf, deleted, nops, aggVars, hist>>

\* the caller assigns into the map it was given, m[uri] = x, or deletes from
\* it, delete(m, uri): the cache's own map changes, and no lock is taken.
AssignInto(w) ==
    /\ HasRef(w)
    /\ ret[w].used = "no"
    /\ ret' = [ret EXCEPT ![w].used = "written"]
    /\ \E u \in URIs :
          \/ \E x \in Values(ret[w].ref) :
                /\ cache' = Store(ret[w].ref, u, x)
                /\ hist' = [hist EXCEPT ![ret[w].ref][u] = WasSet(x)]
          \/ /\ cache' = [cache EXCEPT ![ret[w].ref] = MapDelete(@, u)]
             /\ hist' = [hist EXCEPT ![ret[w].ref][u] = Deleted]
    /\ interf' = Interfere(w, "set")
    /\ UNCHANGED <<mu, pc, call, local, deleted, nops, aggVars>>

\* the whole-map getters, the setters of their maps, and Delete
RefFunctions ==
    MapGetters \cup {"SetFileContents", "SetModule", "Delete"}

NextRef ==
    \E w \in Workers :
        \/ CallWith(w, RefFunctions,
                    [f \in RefFunctions |->
                        IF f \in MapGetters THEN {<<NoURI, Void>>} ELSE OneArg(f)])
        \/ Return(w)
        \/ GetAllFiles(w)
        \/ GetAllModules(w)
        \/ GetAllBuiltInPositions(w)
        \/ SetFileContents(w)
        \/ SetModule(w)
        \/ Delete(w)
        \/ RangeOver(w)
        \/ AssignInto(w)

SpecRef == Init /\ [][NextRef]_vars

\* goroutine w is at the statement of a store operation that writes map m,
\* holding m's lock
WritesInside(w, m) ==
    /\ mu[m] = w
    /\ pc[w] \in BodyPoints
    /\ call[w].fn \in Setters \cup Clears \cup {"Delete", "UpdateCacheForURIFromDisk"}

\* C19 as stated: a map changes only in a step of a store operation that
\* holds the map's lock, and a caller reads the entries of a map it got from
\* GetAllFiles, GetAllModules or GetAllBuiltInPositions only while no other
\* goroutine holds that map's lock for a set or a Delete.
AccessOnlyUnderLock ==
    [][/\ \A m \in MapNames :
            cache'[m] # cache[m] => \E w \in Workers : WritesInside(w, m)
       /\ \A w \in Workers :
            (HasRef(w) /\ pc'[w] = "done"
             /\ ret[w].used = "no" /\ ret'[w].used = "read")
            => \A v \in Workers \ {w} : ~WritesInside(v, ret[w].ref)]_vars

\* ------------------------------------------------------ compare, then write
\* C20 as stated: UpdateCacheForURIFromDisk writes the disk content only when
\* the cache still holds, at the moment of the write, the entry the call
\* compared the disk content with; and a call that succeeds while no other
\* goroutine writes the URI leaves the cache holding the disk content, which
\* is also the content it returns.
CompareThenWriteAtomic ==
    [][\A w \in Workers :
          /\ (/\ call[w].fn = "UpdateCacheForURIFromDisk"
              /\ pc[w] = "set_body"
              /\ pc'[w] = "done")
             => Lookup("fileContents", call[w].uri) = local[w].cachedContent
          /\ (/\ call[w].fn = "UpdateCacheForURIFromDisk"
              /\ pc[w] \in {"get_body", "set_body"}
              /\ pc'[w] = "done"
              /\ interf[w] = {})
             => /\ call[w].uri \in DOMAIN cache'["fileContents"]
                /\ cache'["fileContents"][call[w].uri] = local[w].currentContent
                /\ ret'[w].content = local[w].currentContent]_vars
====
